---- MODULE Spec2Model ----
(***************************************************************************)
(* A model of src/src/sync_calendar.py: one run of main() is               *)
(*   fetch -> parse_events -> eventdata_to_calendar -> write.               *)
(* Texts are strings handled character by character (Len, SubSeq, \o), so  *)
(* that partition, split, replace, lower and int are computed as Python    *)
(* computes them.                                                          *)
(***************************************************************************)
EXTENDS Integers, Sequences, FiniteSets, TLC

VARIABLES
    server,          \* the page the site answers with (input of the run)
    ics_file,        \* the entries of data/grundfoskoret.ics (<<>>: no file)
    pc,              \* position of main()
    html,            \* response.text: the selected event-title nodes, in order
    idx,             \* parse_events: number of selected nodes already visited
    result,          \* parse_events: result
    emitted,         \* parse_events: position in html of each appended record
    date_text,       \* parse_events / parse_date: the date text last parsed
    date_data,       \* parse_events / parse_date: its outcome
    line,            \* parse_events: the source line where the last pass ended
    now,             \* eventdata_to_calendar: now
    event_counters,  \* eventdata_to_calendar: event_counters
    calendar,        \* eventdata_to_calendar: the entries added so far
    error,           \* the exception that ended the run, if any
    writes           \* number of calls of write_calendar_to_file

vars == <<server, ics_file, pc, html, idx, result, emitted, date_text,
          date_data, line, now, event_counters, calendar, error, writes>>

(***************************************************************************)
(* Python str and int primitives.                                          *)
(***************************************************************************)

\* s.find(pat) from position i on, 1-based; 0 when absent.
RECURSIVE Find(_, _, _)
Find(s, pat, i) ==
    IF i + Len(pat) - 1 > Len(s) THEN 0
    ELSE IF SubSeq(s, i, i + Len(pat) - 1) = pat THEN i
    ELSE Find(s, pat, i + 1)

\* pat in s
Contains(s, pat) == Find(s, pat, 1) # 0

\* what follows position i - 1 + Len(sep) of s, "" when i = 0
TailAt(s, sep, i) == IF i = 0 THEN "" ELSE SubSeq(s, i + Len(sep), Len(s))

\* s.partition(sep)[2]: what follows the first sep, "" when sep is absent.
PartitionTail(s, sep) == TailAt(s, sep, Find(s, sep, 1))

\* s.split(sep); SplitAt is given the place i of the first sep
RECURSIVE SplitAt(_, _, _)
SplitAt(s, sep, i) ==
    IF i = 0 THEN <<s>>
    ELSE <<SubSeq(s, 1, i - 1)>>
         \o SplitAt(TailAt(s, sep, i), sep, Find(TailAt(s, sep, i), sep, 1))

Split(s, sep) == SplitAt(s, sep, Find(s, sep, 1))

\* s.replace(c, "") for a one-character c
RECURSIVE Remove(_, _)
Remove(s, c) ==
    IF Len(s) = 0 THEN ""
    ELSE (IF SubSeq(s, 1, 1) = c THEN "" ELSE SubSeq(s, 1, 1))
         \o Remove(SubSeq(s, 2, Len(s)), c)

LowerMap ==
    [c \in {"A", "B", "C", "D", "E", "F", "G", "H", "I", "J", "K", "L", "M",
            "N", "O", "P", "Q", "R", "S", "T", "U", "V", "W", "X", "Y", "Z"} |->
        CASE c = "A" -> "a" [] c = "B" -> "b" [] c = "C" -> "c" [] c = "D" -> "d"
          [] c = "E" -> "e" [] c = "F" -> "f" [] c = "G" -> "g" [] c = "H" -> "h"
          [] c = "I" -> "i" [] c = "J" -> "j" [] c = "K" -> "k" [] c = "L" -> "l"
          [] c = "M" -> "m" [] c = "N" -> "n" [] c = "O" -> "o" [] c = "P" -> "p"
          [] c = "Q" -> "q" [] c = "R" -> "r" [] c = "S" -> "s" [] c = "T" -> "t"
          [] c = "U" -> "u" [] c = "V" -> "v" [] c = "W" -> "w" [] c = "X" -> "x"
          [] c = "Y" -> "y" [] c = "Z" -> "z"]

\* s.lower() (the texts of the model are ASCII)
LowerChar(c) == IF c \in DOMAIN LowerMap THEN LowerMap[c] ELSE c

RECURSIVE Lower(_)
Lower(s) ==
    IF Len(s) = 0 THEN ""
    ELSE LowerChar(SubSeq(s, 1, 1)) \o Lower(SubSeq(s, 2, Len(s)))

DigitMap ==
    [c \in {"0", "1", "2", "3", "4", "5", "6", "7", "8", "9"} |->
        CASE c = "0" -> 0 [] c = "1" -> 1 [] c = "2" -> 2 [] c = "3" -> 3
          [] c = "4" -> 4 [] c = "5" -> 5 [] c = "6" -> 6 [] c = "7" -> 7
          [] c = "8" -> 8 [] c = "9" -> 9]

RECURSIVE AllDigits(_)
AllDigits(s) ==
    Len(s) = 0 \/ (SubSeq(s, 1, 1) \in DOMAIN DigitMap /\ AllDigits(SubSeq(s, 2, Len(s))))

RECURSIVE DigitsValue(_, _)
DigitsValue(s, acc) ==
    IF Len(s) = 0 THEN acc
    ELSE DigitsValue(SubSeq(s, 2, Len(s)), 10 * acc + DigitMap[SubSeq(s, 1, 1)])

\* int() ignores blanks around the number
RECURSIVE Strip(_)
Strip(s) ==
    IF Len(s) = 0 THEN s
    ELSE IF SubSeq(s, 1, 1) = " " THEN Strip(SubSeq(s, 2, Len(s)))
    ELSE IF SubSeq(s, Len(s), Len(s)) = " " THEN Strip(SubSeq(s, 1, Len(s) - 1))
    ELSE s

\* int(s): blanks around, an optional sign and decimal digits; anything else
\* is a ValueError.  (Underscores between digits and non-ASCII digits, which
\* int() also takes, occur in no text of the model.)
Unsigned(digits) ==
    IF Len(digits) = 0 \/ ~AllDigits(digits)
    THEN [ok |-> FALSE, val |-> 0]
    ELSE [ok |-> TRUE, val |-> DigitsValue(digits, 0)]

Negated(n) == [ok |-> n.ok, val |-> 0 - n.val]

Signed(t) ==
    IF Len(t) > 0 /\ SubSeq(t, 1, 1) = "-" THEN Negated(Unsigned(SubSeq(t, 2, Len(t))))
    ELSE IF Len(t) > 0 /\ SubSeq(t, 1, 1) = "+" THEN Unsigned(SubSeq(t, 2, Len(t)))
    ELSE Unsigned(t)

PyInt(s) == Signed(Strip(s))

(***************************************************************************)
(* Date and time parsing.  A parser's outcome is [exc, val]: exc is "none" *)
(* and val the returned dict, or exc names the exception raised.           *)
(***************************************************************************)

CUTOFF_YEAR == 2023

MONTH_MAP ==
    [m \in {"januar", "februar", "marts", "april", "maj", "juni", "juli",
            "august", "september", "oktober", "november", "december"} |->
        CASE m = "januar" -> 1 [] m = "februar" -> 2 [] m = "marts" -> 3
          [] m = "april" -> 4 [] m = "maj" -> 5 [] m = "juni" -> 6
          [] m = "juli" -> 7 [] m = "august" -> 8 [] m = "september" -> 9
          [] m = "oktober" -> 10 [] m = "november" -> 11 [] m = "december" -> 12]

NoDict == <<>>
Raise(exc) == [exc |-> exc, val |-> NoDict]
Return(val) == [exc |-> "none", val |-> val]

\* {**a, **b}: the keys of b win
Merge(a, b) == b @@ a

\* lines 62-66, given the converted day, the lowered month name and the year
DateDict(day, name, year, prefix) ==
    IF ~day.ok THEN Raise("ValueError")
    ELSE IF name \notin DOMAIN MONTH_MAP THEN Raise("KeyError")
    ELSE IF ~year.ok THEN Raise("ValueError")
    ELSE Return((prefix \o "day") :> day.val
                @@ (prefix \o "month") :> MONTH_MAP[name]
                @@ (prefix \o "year") :> year.val)

\* lines 61-66, given the tokens of the text after the marker
DateFromTokens(toks, prefix) ==
    IF Len(toks) # 3 THEN Raise("ValueError")
    ELSE DateDict(PyInt(Remove(toks[1], ".")), Lower(toks[2]), PyInt(toks[3]), prefix)

parse_single_date(text, prefix) ==
    DateFromTokens(Split(PartitionTail(text, "d. "), " "), prefix)

\* {**s, **e} of two outcomes: the first exception raised wins
MergeOutcomes(s, e) ==
    IF s.exc # "none" THEN s
    ELSE IF e.exc # "none" THEN e
    ELSE Return(Merge(s.val, e.val))

\* faulty variant: the halves of a range take each other's role
BothRolesSwapped(start_text, end_text) ==
    MergeOutcomes(parse_single_date(end_text, "start_"),
                  parse_single_date(start_text, "end_"))

\* the dict literal evaluates the start entry first, then the end entry
BothRoles(start_text, end_text) ==
    MergeOutcomes(parse_single_date(start_text, "start_"),
                  parse_single_date(end_text, "end_"))

DoubleFromHalves(halves) ==
    IF Len(halves) # 2 THEN Raise("ValueError")
    ELSE BothRoles(halves[1], halves[2])

parse_double_date(text) == DoubleFromHalves(Split(text, " - "))

parse_date(text) ==
    IF Contains(text, " - ") THEN parse_double_date(text)
    ELSE BothRoles(text, text)

\* [int(x) for x in text.split(":")] unpacked into (hour, minute)
HourMinuteOf(ints) ==
    IF \E i \in 1..Len(ints) : ~ints[i].ok THEN Raise("ValueError")
    ELSE IF Len(ints) # 2 THEN Raise("ValueError")
    ELSE Return(<<ints[1].val, ints[2].val>>)

IntsOf(parts) == [i \in 1..Len(parts) |-> PyInt(parts[i])]

HourMinute(text) == HourMinuteOf(IntsOf(Split(text, ":")))

\* lines 71-75, given the outcomes of the two list comprehensions
TimeDict(s, e) ==
    IF s.exc # "none" THEN s
    ELSE IF e.exc # "none" THEN e
    ELSE Return([start_hour |-> s.val[1], start_minute |-> s.val[2],
                 end_hour |-> e.val[1], end_minute |-> e.val[2]])

TimeFromHalves(halves) ==
    IF Len(halves) # 2 THEN Raise("ValueError")
    ELSE TimeDict(HourMinute(halves[1]), HourMinute(halves[2]))

parse_time(text) == TimeFromHalves(Split(text, " - "))

(***************************************************************************)
(* datetime.datetime(year, month, day, hour, minute) raises ValueError     *)
(* unless the fields denote a real instant; TIMEZONE.localize (pytz, with  *)
(* its default is_dst) attaches the zone and raises nothing.               *)
(***************************************************************************)

IsLeap(y) == (y % 4 = 0 /\ y % 100 # 0) \/ y % 400 = 0

DaysInMonth(y, m) ==
    IF m = 2 THEN (IF IsLeap(y) THEN 29 ELSE 28)
    ELSE IF m \in {4, 6, 9, 11} THEN 30 ELSE 31

ValidInstant(y, m, d, h, mi) ==
    /\ y \in 1..9999
    /\ m \in 1..12
    /\ d \in 1..DaysInMonth(y, m)
    /\ h \in 0..23
    /\ mi \in 0..59

NoInstant == [year |-> 0, month |-> 0, day |-> 0, hour |-> 0, minute |-> 0]

\* faulty variant: no field is range-checked
MakeInstantUnchecked(y, m, d, h, mi) ==
    Return([year |-> y, month |-> m, day |-> d, hour |-> h, minute |-> mi])

MakeInstant(y, m, d, h, mi) ==
    IF ValidInstant(y, m, d, h, mi)
    THEN Return([year |-> y, month |-> m, day |-> d, hour |-> h, minute |-> mi])
    ELSE Raise("ValueError")

(***************************************************************************)
(* The markup.  html is the list soup.select('.calendar-event-title')      *)
(* yields; an element is the list of its child nodes (elem.contents).  A   *)
(* child is a text node (NavigableString) or a tag whose own contents are  *)
(* texts.  A title that is a tag has no lower(): the call at line 125      *)
(* raises TypeError.                                                       *)
(***************************************************************************)

Text(s) == [tag |-> FALSE, text |-> s, contents |-> <<>>]
Tag(inner) == [tag |-> TRUE, text |-> "", contents |-> inner]
Elem(title, date, time) == <<Text(title), Tag(<<date>>), Tag(<<time>>)>>

\* faulty variant: the emptiness checks let every node through
TruthyAlways(node) == TRUE

\* bool(node): a tag is always true, a text node is true unless empty
Truthy(node) == node.tag \/ node.text # ""

\* node.contents[0]
FirstContent(node) ==
    IF ~node.tag THEN Raise("AttributeError")
    ELSE IF Len(node.contents) = 0 THEN Raise("IndexError")
    ELSE Return(node.contents[1])

NoRecord == [title |-> "", start |-> NoInstant, end |-> NoInstant, cancelled |-> FALSE]
NoOutcome == [exc |-> "unset", val |-> NoDict]

\* faulty variant: the title is not lowered
IsCancelledExact(title) == Contains(title, "aflyst")

\* "aflyst" in title.lower()
IsCancelled(title) == Contains(Lower(title), "aflyst")

\* faulty variant: the filter reads the end year
IsStaleByEnd(data) == data["end_year"] < CUTOFF_YEAR

\* the staleness test of line 95
IsStale(data) == data["start_year"] < CUTOFF_YEAR

Continue(at, dtext, ddata) ==
    [kind |-> "continue", line |-> at, exc |-> "none", record |-> NoRecord,
     date_text |-> dtext, date_data |-> ddata]
Throw(at, exc, dtext, ddata) ==
    [kind |-> "raise", line |-> at, exc |-> exc, record |-> NoRecord,
     date_text |-> dtext, date_data |-> ddata]

\* One pass of the for loop of parse_events over elem; dtext0 and ddata0 are
\* the values the locals date_text and date_data hold on entry.  The pass is
\* written as a chain: each operator is given what the lines before it made.

\* lines 120-126
Emit(elem, dtext, dd, st, en) ==
    IF elem[1].tag THEN Throw(125, "TypeError", dtext, dd)
    ELSE [kind |-> "append", line |-> 121, exc |-> "none",
          record |-> [title |-> elem[1].text, start |-> st.val, end |-> en.val,
                      cancelled |-> IsCancelled(elem[1].text)],
          date_text |-> dtext, date_data |-> dd]

\* lines 104-118, st and en the outcomes of the two datetime constructions
AfterInstants(elem, dtext, dd, st, en) ==
    IF st.exc # "none" THEN Throw(104, st.exc, dtext, dd)
    ELSE IF en.exc # "none" THEN Throw(112, en.exc, dtext, dd)
    ELSE Emit(elem, dtext, dd, st, en)

StartInstant(d, t) ==
    MakeInstant(d["start_year"], d["start_month"], d["start_day"],
                t["start_hour"], t["start_minute"])

EndInstant(d, t) ==
    MakeInstant(d["end_year"], d["end_month"], d["end_day"],
                t["end_hour"], t["end_minute"])

\* lines 102-118, td the outcome of parse_time
AfterTime(elem, dtext, dd, td) ==
    IF td.exc # "none" THEN Throw(102, td.exc, dtext, dd)
    ELSE AfterInstants(elem, dtext, dd, StartInstant(dd.val, td.val),
                       IF StartInstant(dd.val, td.val).exc = "none"
                       THEN EndInstant(dd.val, td.val) ELSE Raise("ValueError"))

\* lines 98-102, tt the outcome of elem.contents[2].contents[0]
AfterTimeText(elem, dtext, dd, tt) ==
    IF tt.exc # "none" THEN Throw(98, tt.exc, dtext, dd)
    ELSE IF tt.val = "" THEN Continue(100, dtext, dd)
    ELSE AfterTime(elem, dtext, dd, parse_time(tt.val))

\* faulty variant: the staleness filter runs after the time is parsed and the
\* instants are built
AfterDateFilterLast(elem, dtext, ddata0, dd) ==
    IF dd.exc # "none" THEN Throw(94, dd.exc, dtext, ddata0)
    ELSE IF AfterTimeText(elem, dtext, dd, FirstContent(elem[3])).kind = "raise"
    THEN AfterTimeText(elem, dtext, dd, FirstContent(elem[3]))
    ELSE IF dd.val["start_year"] < CUTOFF_YEAR THEN Continue(96, dtext, dd)
    ELSE AfterTimeText(elem, dtext, dd, FirstContent(elem[3]))

\* lines 94-98, dd the outcome of parse_date
AfterDate(elem, dtext, ddata0, dd) ==
    IF dd.exc # "none" THEN Throw(94, dd.exc, dtext, ddata0)
    ELSE IF IsStale(dd.val) THEN Continue(96, dtext, dd)
    ELSE AfterTimeText(elem, dtext, dd, FirstContent(elem[3]))

\* lines 90-94, dt the outcome of elem.contents[1].contents[0]
AfterDateText(elem, dtext0, ddata0, dt) ==
    IF dt.exc # "none" THEN Throw(90, dt.exc, dtext0, ddata0)
    ELSE IF dt.val = "" THEN Continue(92, dt.val, ddata0)
    ELSE AfterDate(elem, dt.val, ddata0, parse_date(dt.val))

\* lines 83-90
LoopBody(elem, dtext0, ddata0) ==
    IF Len(elem) < 3 THEN Continue(84, dtext0, ddata0)
    ELSE IF ~Truthy(elem[1]) THEN Continue(88, dtext0, ddata0)
    ELSE AfterDateText(elem, dtext0, ddata0, FirstContent(elem[2]))

\* parse_events as a whole: the list returned, or the exception
\* faulty variant: a new record goes to the front of the list
CollectedFront(acc, o) == IF o.kind = "append" THEN <<o.record>> \o acc ELSE acc

\* result after a pass with outcome o
Collected(acc, o) == IF o.kind = "append" THEN Append(acc, o.record) ELSE acc

RECURSIVE ParseFrom(_, _, _, _)
ParseFrom(page, i, acc, o) ==
    IF o.kind = "raise" THEN Raise(o.exc)
    ELSE IF i > Len(page) THEN Return(Collected(acc, o))
    ELSE ParseFrom(page, i + 1, Collected(acc, o),
                   LoopBody(page[i], o.date_text, o.date_data))

parse_events(page) == ParseFrom(page, 1, <<>>, Continue(0, "", NoOutcome))

(***************************************************************************)
(* Identity generator and calendar assembly.                               *)
(***************************************************************************)

RECURSIVE ZeroPad(_, _)
ZeroPad(s, width) == IF Len(s) >= width THEN s ELSE ZeroPad("0" \o s, width)

\* dt.date().isoformat()
IsoDate(dt) ==
    ZeroPad(ToString(dt.year), 4) \o "-" \o ZeroPad(ToString(dt.month), 2)
    \o "-" \o ZeroPad(ToString(dt.day), 2)

\* uuid.UUID(hashlib.md5(value).hexdigest()): the digest is not computed;
\* it is a tagged copy of the hashed text, so distinct texts give distinct ids.
Md5Uuid(value) == <<"md5", value>>

\* the text hashed: '%s:%d' % (date_part, counter)
UniqueValue(date_part, counter) == date_part \o ":" \o ToString(counter)

\* faulty variant: the key keeps the hour of the start
DatePartWithHour(dt) == IsoDate(dt) \o "T" \o ZeroPad(ToString(dt.hour), 2)

\* the key of the counter map: date_part
DatePart(dt) == IsoDate(dt)

\* faulty variant: the counter read is not incremented
NextCounterStuck(date_part, counter_map) ==
    IF date_part \in DOMAIN counter_map THEN counter_map[date_part] ELSE 1

\* counter_map.get(date_part, 0) + 1
NextCounter(date_part, counter_map) ==
    (IF date_part \in DOMAIN counter_map THEN counter_map[date_part] ELSE 0) + 1

\* lines 134-142, given date_part and the incremented counter
UuidFor(date_part, counter, counter_map) ==
    [uid |-> Md5Uuid(UniqueValue(date_part, counter)),
     counter_map |-> (date_part :> counter) @@ counter_map]

get_uuid(dt, counter_map) ==
    UuidFor(DatePart(dt), NextCounter(DatePart(dt), counter_map), counter_map)

Absent == "-"

\* the component built for one eventdata (lines 178-191)
Entry(eventdata, uid, stamp) ==
    [uid |-> uid, dtstamp |-> stamp,
     name |-> eventdata.title, description |-> eventdata.title,
     dtstart |-> eventdata.start, dtend |-> eventdata.end,
     method |-> IF eventdata.cancelled THEN "CANCEL" ELSE Absent,
     status |-> IF eventdata.cancelled THEN "CANCELLED" ELSE Absent]

\* one pass of the for loop of eventdata_to_calendar
Added(cal, eventdata, g, stamp) ==
    [calendar |-> Append(cal, Entry(eventdata, g.uid, stamp)),
     counters |-> g.counter_map]

AssembleOne(cal, counters, eventdata, stamp) ==
    Added(cal, eventdata, get_uuid(eventdata.start, counters), stamp)

NoCounters == <<>>

RECURSIVE AssembleFrom(_, _, _, _)
AssembleFrom(list, i, a, stamp) ==
    IF i > Len(list) THEN a.calendar
    ELSE AssembleFrom(list, i + 1,
                      AssembleOne(a.calendar, a.counters, list[i], stamp), stamp)

\* eventdata_to_calendar as a whole: the entries of the document
eventdata_to_calendar(list, stamp) ==
    AssembleFrom(list, 1, [calendar |-> <<>>, counters |-> NoCounters], stamp)

(***************************************************************************)
(* Inputs: the event-title elements a page may hold.                       *)
(***************************************************************************)

MaxFragments == 3

GoodTime == "19:00 - 21:00"

FragmentPool ==
    { Elem("Foraarskoncert", "Soendag d. 5. marts 2023", GoodTime),
      Elem("Oeveaften AFLYST", "d. 5. marts 2023", "19:30 - 21:30"),
      Elem("Julekoncert", "Loerdag d. 13. januar 2024 - Fredag d. 12. Januar 2024",
           "21:00 - 9:15"),
      \* stale: start year below the cutoff
      Elem("Gammel koncert", "d. 30. december 2022 - d. 2. januar 2023", GoodTime),
      Elem("Aflyst 2022", "d. 31. april 2022", "25:00 - 26:00"),
      Elem("Gammel proeve", "d. 1. april 2022", "kl. 19"),
      <<Text("Gammel uden tid"), Tag(<<"d. 1. april 2022">>), Tag(<<>>)>>,
      \* malformed texts
      Elem("Sommerfest", "d. 5. marz 2023", GoodTime),
      Elem("Korstaevne", "d. 5. marts 2023 - 6. marts 2023", GoodTime),
      Elem("Generalproeve", "d. 6. marts 2023", "kl. 19"),
      \* well-formed texts that denote no instant
      Elem("Paaskekoncert", "d. 31. april 2023", GoodTime),
      Elem("Natkoncert", "d. 6. marts 2023", "23:00 - 24:30"),
      \* structurally incomplete elements
      <<Text("Kun titel"), Tag(<<"d. 5. marts 2023">>)>>,
      Elem("", "d. 5. marts 2023", GoodTime),
      Elem("Uden dato", "", GoodTime),
      Elem("Uden tid", "d. 5. marts 2023", ""),
      <<Text("Tom dato"), Tag(<<>>), Tag(<<GoodTime>>)>> }

Extend(shorter, S) == shorter \cup {Append(q, e) : q \in shorter, e \in S}

RECURSIVE SeqsUpTo(_, _)
SeqsUpTo(S, n) == IF n = 0 THEN {<<>>} ELSE Extend(SeqsUpTo(S, n - 1), S)

Pages == SeqsUpTo(FragmentPool, MaxFragments)

\* the instants datetime.datetime.now() may give
Clock == {1, 2}

NoError == [exc |-> "none", line |-> 0]

(***************************************************************************)
(* main()                                                                  *)
(***************************************************************************)

Idle ==
    /\ pc = "fetch"
    /\ html = <<>>
    /\ idx = 0
    /\ result = <<>>
    /\ emitted = <<>>
    /\ date_text = ""
    /\ date_data = NoOutcome
    /\ line = 0
    /\ now = 0
    /\ event_counters = NoCounters
    /\ calendar = <<>>
    /\ error = NoError
    /\ writes = 0

Init ==
    /\ server \in Pages
    /\ ics_file = <<>>
    /\ Idle

\* requests.post answers; response.text is parsed and the title nodes selected
Fetch ==
    /\ pc = "fetch"
    /\ html' = server
    /\ pc' = "parse_events"
    /\ UNCHANGED <<server, ics_file, idx, result, emitted, date_text, date_data,
                   line, now, event_counters, calendar, error, writes>>

\* requests.post raises (no connection, ...)
FetchFails ==
    /\ pc = "fetch"
    /\ pc' = "failed"
    /\ error' = [exc |-> "RequestException", line |-> 205]
    /\ UNCHANGED <<server, ics_file, html, idx, result, emitted, date_text,
                   date_data, line, now, event_counters, calendar, writes>>

\* the effect of a pass that ended with outcome o
Pass(o) ==
    /\ date_text' = o.date_text
    /\ date_data' = o.date_data
    /\ line' = o.line
    /\ IF o.kind = "raise"
       THEN /\ pc' = "failed"
            /\ error' = [exc |-> o.exc, line |-> o.line]
            /\ UNCHANGED <<idx, result, emitted>>
       ELSE /\ idx' = idx + 1
            /\ result' = Collected(result, o)
            /\ emitted' = IF o.kind = "append"
                          THEN Append(emitted, idx + 1) ELSE emitted
            /\ UNCHANGED <<pc, error>>

\* one pass of the loop of parse_events, over html[idx + 1]
Extract ==
    /\ pc = "parse_events"
    /\ idx < Len(html)
    /\ Pass(LoopBody(html[idx + 1], date_text, date_data))
    /\ UNCHANGED <<server, ics_file, html, now, event_counters, calendar, writes>>

\* parse_events returns; eventdata_to_calendar starts (lines 167-175)
BeginAssembly ==
    /\ pc = "parse_events"
    /\ idx = Len(html)
    /\ pc' = "eventdata_to_calendar"
    /\ now' \in Clock
    /\ event_counters' = NoCounters
    /\ calendar' = <<>>
    /\ UNCHANGED <<server, ics_file, html, idx, result, emitted, date_text,
                   date_data, line, error, writes>>

\* one pass of the loop of eventdata_to_calendar
Assemble ==
    /\ pc = "eventdata_to_calendar"
    /\ Len(calendar) < Len(result)
    /\ calendar' = AssembleOne(calendar, event_counters,
                               result[Len(calendar) + 1], now).calendar
    /\ event_counters' = AssembleOne(calendar, event_counters,
                                     result[Len(calendar) + 1], now).counters
    /\ UNCHANGED <<server, ics_file, pc, html, idx, result, emitted, date_text,
                   date_data, line, now, error, writes>>

\* eventdata_to_calendar returns the document
EndAssembly ==
    /\ pc = "eventdata_to_calendar"
    /\ Len(calendar) = Len(result)
    /\ pc' = "write"
    /\ UNCHANGED <<server, ics_file, html, idx, result, emitted, date_text,
                   date_data, line, now, event_counters, calendar, error, writes>>

\* write_calendar_to_file
Write ==
    /\ pc = "write"
    /\ ics_file' = calendar
    /\ writes' = writes + 1
    /\ pc' = "done"
    /\ UNCHANGED <<server, html, idx, result, emitted, date_text, date_data,
                   line, now, event_counters, calendar, error>>

Next ==
    \/ Fetch
    \/ FetchFails
    \/ Extract
    \/ BeginAssembly
    \/ Assemble
    \/ EndAssembly
    \/ Write

Spec == Init /\ [][Next]_vars

(***************************************************************************)
(* A later run of main(): the file a former run wrote is on disk.  The     *)
(* former run saw a page of RerunPool at instant 0.                        *)
(***************************************************************************)

RerunPool ==
    { Elem("Foraarskoncert", "Soendag d. 5. marts 2023", GoodTime),
      Elem("Oeveaften AFLYST", "d. 5. marts 2023", "19:30 - 21:30"),
      Elem("Julekoncert", "Loerdag d. 13. januar 2024 - Fredag d. 12. Januar 2024",
           "21:00 - 9:15"),
      Elem("Nytaarskoncert", "d. 13. januar 2024", "8:00 - 23:59") }

MaxRerun == 2

RerunPages == SeqsUpTo(RerunPool, MaxRerun)

\* what main() writes for a page fetched at instant stamp
Published(page, stamp) == eventdata_to_calendar(parse_events(page).val, stamp)

InitRerun ==
    /\ server \in RerunPages
    /\ ics_file \in {Published(p, 0) : p \in RerunPages}
    /\ Idle

SpecRerun == InitRerun /\ [][Next]_vars

(***************************************************************************)
(* parse_date called on its own, on a date text.                           *)
(***************************************************************************)

\* a written date: the text of each token and the number it stands for
Prefixes == {"", "Soendag ", "Kl. 19, loerdag "}
Days == {[text |-> "5", val |-> 5], [text |-> "05", val |-> 5], [text |-> "31", val |-> 31]}
Months == {[text |-> "marts", val |-> 3], [text |-> "Maj", val |-> 5],
           [text |-> "DECEMBER", val |-> 12], [text |-> "januar", val |-> 1]}
Years == {[text |-> "2022", val |-> 2022], [text |-> "2023", val |-> 2023],
          [text |-> "2024", val |-> 2024]}

Written == [prefix : Prefixes, day : Days, month : Months, year : Years]

\* "<prefix>d. <D>. <MonthName> <YYYY>"
Render(w) ==
    w.prefix \o "d. " \o w.day.text \o ". " \o w.month.text \o " " \o w.year.text

RangeStarts == {w \in Written : w.day.text # "05" /\ w.month.val \in {3, 12} /\ w.year.val # 2024}
RangeEnds == {w \in Written : w.day.text # "5" /\ w.month.val \in {5, 1} /\ w.year.val # 2022
                              /\ w.prefix # "Soendag "}

RenderRange(a, b) == Render(a) \o " - " \o Render(b)

MalformedDates ==
    { "", "5. marts 2023", "d. 5. marts", "d. 5. marts 2023 kl. 19", "d. fem. marts 2023",
      "d. 5. marz 2023", "d. 5. marts MMXXIII", "Fred. d. 5. marts 2023",
      "d. 5. marts 2023 - 6. marts 2023", "5. marts 2023 - d. 6. marts 2023",
      "d. 5. marts 2023 - d. 6. marts 2023 - d. 7. marts 2023", "d. 5. marts 2023 -d. 6. marts 2023" }

DateTexts ==
    {Render(w) : w \in Written}
    \cup {RenderRange(a, b) : a \in RangeStarts, b \in RangeEnds}
    \cup MalformedDates

InitDate ==
    /\ server = <<>>
    /\ ics_file = <<>>
    /\ pc = "parse_date"
    /\ html = <<>>
    /\ idx = 0
    /\ result = <<>>
    /\ emitted = <<>>
    /\ date_text \in DateTexts
    /\ date_data = NoOutcome
    /\ line = 0
    /\ now = 0
    /\ event_counters = NoCounters
    /\ calendar = <<>>
    /\ error = NoError
    /\ writes = 0

CallParseDate ==
    /\ pc = "parse_date"
    /\ date_data' = parse_date(date_text)
    /\ pc' = IF parse_date(date_text).exc = "none" THEN "returned" ELSE "raised"
    /\ UNCHANGED <<server, ics_file, html, idx, result, emitted, date_text, line,
                   now, event_counters, calendar, error, writes>>

NextDate == CallParseDate

SpecDate == InitDate /\ [][NextDate]_vars

(***************************************************************************)
(* Properties.  The predicates below describe an element by its texts.     *)
(***************************************************************************)

Range(f) == {f[i] : i \in DOMAIN f}

\* the node is a tag whose first content is a non-empty text
HasInnerText(node) == node.tag /\ Len(node.contents) > 0 /\ node.contents[1] # ""

\* three children, a title and a date text
HasDateText(e) == Len(e) >= 3 /\ Truthy(e[1]) /\ HasInnerText(e[2])
\* parse_date and parse_time of the texts the pools hold, computed once
PoolTexts(n) ==
    {e[n].contents[1] : e \in {x \in FragmentPool \cup RerunPool :
                                  Len(x) >= n /\ HasInnerText(x[n])}}
ParsedDates == [t \in PoolTexts(2) |-> parse_date(t)]
ParsedTimes == [t \in PoolTexts(3) |-> parse_time(t)]

DateOf(e) == ParsedDates[e[2].contents[1]]
DateParses(e) == HasDateText(e) /\ DateOf(e).exc = "none"
StartsBefore2023(e) == DateParses(e) /\ DateOf(e).val["start_year"] < 2023
StartsFrom2023(e) == DateParses(e) /\ DateOf(e).val["start_year"] >= 2023

TimeOf(e) == ParsedTimes[e[3].contents[1]]
TimeParses(e) == Len(e) >= 3 /\ HasInnerText(e[3]) /\ TimeOf(e).exc = "none"

\* the start and the end the texts of e spell out
StartOf(e) ==
    [year |-> DateOf(e).val["start_year"], month |-> DateOf(e).val["start_month"],
     day |-> DateOf(e).val["start_day"], hour |-> TimeOf(e).val["start_hour"],
     minute |-> TimeOf(e).val["start_minute"]]
EndOf(e) ==
    [year |-> DateOf(e).val["end_year"], month |-> DateOf(e).val["end_month"],
     day |-> DateOf(e).val["end_day"], hour |-> TimeOf(e).val["end_hour"],
     minute |-> TimeOf(e).val["end_minute"]]
IsInstant(t) == ValidInstant(t.year, t.month, t.day, t.hour, t.minute)

\* date and time texts both parse, and one of the two is no real instant
NoRealInstant(e) ==
    DateParses(e) /\ TimeParses(e) /\ ~(IsInstant(StartOf(e)) /\ IsInstant(EndOf(e)))

\* the date or the time text of e is malformed
MalformedText(e) ==
    \/ HasDateText(e) /\ DateOf(e).exc # "none"
    \/ DateParses(e) /\ Len(e) >= 3 /\ HasInnerText(e[3]) /\ TimeOf(e).exc # "none"

\* e passes every check of the loop and is appended
Accepted(e) ==
    StartsFrom2023(e) /\ TimeParses(e) /\ IsInstant(StartOf(e)) /\ IsInstant(EndOf(e))

InParseEvents(l) == l \in 83..126
Failed == pc = "failed"
FailedInParse == Failed /\ InParseEvents(error.line)
Minutes(t) == (((t.year * 12 + t.month) * 31 + t.day) * 24 + t.hour) * 60 + t.minute
SameDay(s, t) == s.year = t.year /\ s.month = t.month /\ s.day = t.day

\* C1: a fragment whose date or time text is malformed is skipped: no error
\* leaves parse_events because of it, and the well-formed, non-stale
\* fragments of the page are all in the returned list.
C1_MalformedSkipped ==
    /\ FailedInParse => ~MalformedText(html[idx + 1])
    /\ pc \in {"eventdata_to_calendar", "write", "done"} =>
          \A i \in 1..Len(html) : Accepted(html[i]) => i \in Range(emitted)

\* C2 (as claimed): the file is written at most once and only after fetch,
\* extraction and assembly completed; and whenever the date and time of any
\* fragment of the page form no real instant, nothing is written.
C2_AnyFragmentAborts ==
    /\ writes <= 1
    /\ pc \in {"write", "done"} =>
          error = NoError /\ idx = Len(html) /\ Len(calendar) = Len(result)
    /\ (\E i \in 1..Len(html) : NoRealInstant(html[i])) =>
          writes = 0 /\ pc \notin {"write", "done"}

\* C2 (amended): the file is written at most once, only when fetch,
\* extraction and assembly completed without failure, and it is the whole
\* document; a fragment that starts in 2023 or later, has a title and texts
\* that parse, but whose date and time form no real instant, is never passed:
\* the run stops there and nothing is written.
C2_AllOrNothing ==
    /\ writes <= 1
    /\ writes = 1 <=> pc = "done"
    /\ pc \in {"write", "done"} =>
          error = NoError /\ idx = Len(html) /\ Len(calendar) = Len(result)
    /\ pc = "done" => ics_file = calendar
    /\ \A i \in 1..Len(html) :
          StartsFrom2023(html[i]) /\ NoRealInstant(html[i]) =>
              writes = 0 /\ pc \notin {"write", "done"} /\ idx < i
    /\ Failed => writes = 0 /\ ics_file = <<>>

\* the run stopped at an impossible instant after a valid fragment was
\* collected, and nothing was written
C2_Witness ==
    /\ Failed /\ error.line \in {104, 112}
    /\ Len(result) >= 1
    /\ NoRealInstant(html[idx + 1])
    /\ writes = 0

\* C3: a fragment whose parsed start year is below 2023 is in no returned
\* list, whatever its other fields; only the start year counts.
C3_StaleDropped ==
    /\ \A i \in 1..Len(html) : StartsBefore2023(html[i]) => i \notin Range(emitted)
    /\ \A k \in 1..Len(result) : result[k].start.year >= 2023

\* a range from 2022 into 2023 with a valid time was passed and dropped
C3_Witness ==
    /\ pc = "done"
    /\ \E i \in 1..Len(html) :
          /\ StartsBefore2023(html[i])
          /\ DateOf(html[i]).val["end_year"] >= 2023
          /\ TimeParses(html[i])
          /\ i \notin Range(emitted)
    /\ Len(result) >= 1

\* the start dates of a document, in order
StartDays(doc) == [k \in 1..Len(doc) |-> <<doc[k].dtstart.year, doc[k].dtstart.month,
                                           doc[k].dtstart.day>>]

\* C4: two assemblies, each from an empty counter, over the same sequence of
\* start dates give the same identifiers position by position, whatever the
\* titles, times of day, ends, cancelled flags and assembly instants: the
\* document being assembled agrees with the file of the former run on every
\* prefix where their start dates agree.
C4_SameDatesSameUids ==
    pc \in {"eventdata_to_calendar", "write"} =>
        \A k \in 1..Len(calendar) :
            (k <= Len(ics_file)
             /\ SubSeq(StartDays(calendar), 1, k) = SubSeq(StartDays(ics_file), 1, k))
            => calendar[k].uid = ics_file[k].uid

\* a document of two events of one day, which differs from the file of the
\* former run in title, times, cancellation and stamp but not in start dates
C4_Witness ==
    /\ pc = "write"
    /\ Len(calendar) = 2 /\ Len(ics_file) = 2
    /\ StartDays(calendar) = StartDays(ics_file)
    /\ StartDays(calendar)[1] = StartDays(calendar)[2]
    /\ calendar[1].name # ics_file[1].name
    /\ calendar[1].dtstart # ics_file[1].dtstart
    /\ calendar[1].dtend # ics_file[1].dtend
    /\ calendar[1].method # ics_file[1].method
    /\ calendar[1].dtstamp # ics_file[1].dtstamp
    /\ calendar[1].uid = ics_file[1].uid
    /\ calendar[2].uid = ics_file[2].uid

\* the spellings of the keyword in any letter case
Keyword ==
    {a \o f \o l \o y \o z \o t :
        a \in {"a", "A"}, f \in {"f", "F"}, l \in {"l", "L"},
        y \in {"y", "Y"}, z \in {"s", "S"}, t \in {"t", "T"}}
HasKeyword(title) == \E i \in 1..(Len(title) - 5) : SubSeq(title, i, i + 5) \in Keyword

\* C5: a record is flagged cancelled exactly when its title holds "aflyst"
\* in any letter case; the document has one entry per record, and an entry
\* carries CANCEL / CANCELLED exactly when its record is flagged.
C5_CancellationsKept ==
    /\ \A k \in 1..Len(result) :
          /\ result[k].cancelled <=> HasKeyword(result[k].title)
          /\ result[k].title = html[emitted[k]][1].text
    /\ Len(calendar) <= Len(result)
    /\ pc \in {"write", "done"} => Len(calendar) = Len(result)
    /\ \A k \in 1..Len(calendar) :
          /\ calendar[k].name = result[k].title
          /\ result[k].cancelled =>
                calendar[k].method = "CANCEL" /\ calendar[k].status = "CANCELLED"
          /\ ~result[k].cancelled =>
                calendar[k].method = Absent /\ calendar[k].status = Absent

\* a written document with a cancelled entry (upper-case keyword) and a plain one
C5_Witness ==
    /\ pc = "done"
    /\ \E k \in 1..Len(ics_file) :
          /\ ics_file[k].status = "CANCELLED"
          /\ ~Contains(ics_file[k].name, "aflyst")
    /\ \E k \in 1..Len(ics_file) : ics_file[k].status = Absent

\* the dict parse_date returns for a start and an end date
Dates(a, b) ==
    [start_day |-> a.day.val, start_month |-> a.month.val, start_year |-> a.year.val,
     end_day |-> b.day.val, end_month |-> b.month.val, end_year |-> b.year.val]

\* C6: parse_date on a valid single-date text returns start = end = the date
\* written; on a valid range text "A - B" it returns what parsing A alone
\* gives for the start and what parsing B alone gives for the end, the
\* prefix before "d. " being dropped in each half.
C6_ParseDate ==
    pc \in {"returned", "raised"} =>
        /\ \A w \in Written :
              date_text = Render(w) => date_data = Return(Dates(w, w))
        /\ \A a \in RangeStarts, b \in RangeEnds :
              date_text = RenderRange(a, b) =>
                  /\ date_data = Return(Dates(a, b))
                  /\ date_data.val = Merge(parse_single_date(Render(a), "start_").val,
                                           parse_single_date(Render(b), "end_").val)

\* a range with a prefix in both halves was parsed
C6_Witness ==
    /\ pc = "returned"
    /\ \E a \in RangeStarts, b \in RangeEnds :
          /\ a.prefix # "" /\ b.prefix # ""
          /\ date_text = RenderRange(a, b)
          /\ date_data.val["start_year"] < date_data.val["end_year"]

\* an element the loop skips at one of its four emptiness checks; the time
\* text is looked at only once the date text has parsed to 2023 or later
SkippedShape(e) ==
    \/ Len(e) < 3
    \/ Len(e) >= 3 /\ ~e[1].tag /\ e[1].text = ""
    \/ Len(e) >= 3 /\ Truthy(e[1]) /\ e[2].tag /\ Len(e[2].contents) > 0
       /\ e[2].contents[1] = ""
    \/ StartsFrom2023(e) /\ e[3].tag /\ Len(e[3].contents) > 0 /\ e[3].contents[1] = ""

C8_OrderKept ==
    /\ Len(result) = Len(emitted)
    /\ \A j, k \in 1..Len(emitted) : j < k => emitted[j] < emitted[k]
    /\ \A i \in 1..idx : Accepted(html[i]) <=> i \in Range(emitted)
    /\ \A k \in 1..Len(emitted) :
          /\ emitted[k] \in 1..idx
          /\ result[k].title = html[emitted[k]][1].text
          /\ result[k].start = StartOf(html[emitted[k]])
          /\ result[k].end = EndOf(html[emitted[k]])
    /\ Len(calendar) <= Len(result)
    /\ \A k \in 1..Len(calendar) :
          /\ calendar[k].name = result[k].title
          /\ calendar[k].description = result[k].title
          /\ calendar[k].dtstart = result[k].start
          /\ calendar[k].dtend = result[k].end

\* a written document of two entries, the second starting after it ends
C8_Witness ==
    /\ pc = "done"
    /\ Len(ics_file) = 2
    /\ ics_file[1].name # ics_file[2].name
    /\ Minutes(ics_file[2].dtstart) > Minutes(ics_file[2].dtend)
    /\ Minutes(ics_file[1].dtstart) < Minutes(ics_file[1].dtend)

\* the number of the first k records that start on the day of record j
Ordinal(j, k) == Cardinality({i \in 1..k : SameDay(result[i].start, result[j].start)})

Assembling == pc \in {"eventdata_to_calendar", "write", "done"}

CountersMatch ==
    Assembling =>
        /\ Len(calendar) = 0 => event_counters = NoCounters
        /\ DOMAIN event_counters = {IsoDate(result[j].start) : j \in 1..Len(calendar)}
        /\ \A j \in 1..Len(calendar) :
              /\ event_counters[IsoDate(result[j].start)] = Ordinal(j, Len(calendar))
              /\ calendar[j].uid =
                    Md5Uuid(UniqueValue(IsoDate(result[j].start), Ordinal(j, j)))
        /\ \A j, k \in 1..Len(calendar) : j # k => calendar[j].uid # calendar[k].uid

\* the keys whose counter a step adds or changes
ChangedKeys ==
    {d \in DOMAIN event_counters' :
        d \notin DOMAIN event_counters \/ event_counters[d] # event_counters'[d]}

\* the counter map changes only in a pass of the assembly loop, which adds
\* one entry to the document and changes the counter of one date
OneKeyPerEvent ==
    event_counters' # event_counters =>
        /\ pc = "eventdata_to_calendar" /\ pc' = pc
        /\ Len(calendar') = Len(calendar) + 1
        /\ DOMAIN event_counters \subseteq DOMAIN event_counters'
        /\ Cardinality(ChangedKeys) = 1

\* C9: the counter map is empty when assembly starts and is changed only by
\* get_uuid, one key per call; after k events it holds, for each ISO date,
\* the number of those k events that start on that date, so the n-th event
\* of a date gets ordinal n; the identifiers of a document are pairwise
\* distinct.
C9_CountersAndUids == []CountersMatch /\ [][OneKeyPerEvent]_vars

\* two events of one day were assembled: the counter of the day is 2
C9_Witness ==
    /\ pc = "done"
    /\ Len(calendar) = 2
    /\ SameDay(calendar[1].dtstart, calendar[2].dtstart)
    /\ event_counters[IsoDate(calendar[1].dtstart)] = 2
    /\ calendar[1].uid # calendar[2].uid

\* the time child of e is missing, or its text malformed, or e spells no instant
TimeOrDayDefect(e) ==
    \/ ~e[3].tag
    \/ Len(e[3].contents) = 0
    \/ e[3].contents[1] # "" /\ TimeOf(e).exc # "none"
    \/ NoRealInstant(e)

\* C10: the checks of a pass run in the order child count, title, date text,
\* date parse, staleness, time text, time parse, instants, append.  A
\* fragment that starts before 2023 is dropped at the staleness filter
\* whatever its time text or day, and never ends the run; the same defect in
\* a fragment that starts in 2023 or later ends the run.
C10_CheckOrder ==
    /\ FailedInParse => ~StartsBefore2023(html[idx + 1])
    /\ (~Failed /\ idx >= 1 /\ StartsBefore2023(html[idx])) => line = 96
    /\ \A i \in 1..idx : ~(StartsFrom2023(html[i]) /\ TimeOrDayDefect(html[i]))
    /\ (FailedInParse /\ error.line > 96) => StartsFrom2023(html[idx + 1])
    /\ (FailedInParse /\ error.line > 102) => TimeParses(html[idx + 1])
    /\ (idx >= 1 /\ ~Failed /\ line >= 92) => HasDateText(html[idx]) \/ line = 92
    /\ (idx >= 1 /\ ~Failed /\ line = 100) => StartsFrom2023(html[idx])

\* a stale fragment with a defective time or day was passed, and a later
\* fragment from 2023 on with a defect ended the run
C10_Witness ==
    /\ FailedInParse
    /\ idx = 1
    /\ StartsBefore2023(html[1]) /\ TimeOrDayDefect(html[1])
    /\ StartsFrom2023(html[2]) /\ TimeOrDayDefect(html[2])

====
